---- MODULE Spec2Model ----
(***************************************************************************)
(* Model of the two controllers of the repository:                         *)
(*   - AutoScaleMonitor   (src/scripts/auto-scale-monitor.py)              *)
(*   - RedisClusterManager (src/scripts/redis-cluster-manager.py)          *)
(*                                                                         *)
(* Specifications:                                                         *)
(*   Spec          the monitoring loop of AutoScaleMonitor                 *)
(*   ActorSpec     the loop, with another actor writing the replica count  *)
(*   StartupSpec   the monitor constructed from a configuration file, then *)
(*                 the loop                                                *)
(*   DecisionSpec  make_scaling_decision applied to drawn arguments        *)
(*   PatternSpec   analyze_patterns applied to a drawn window              *)
(*   TrendSpec     the loop, with a window of recent samples at hand       *)
(*   ClusterSpec   get_cluster_status / perform_failover on a drawn cluster*)
(*   CheckSpec     _check_failover_needed applied to drawn arguments       *)
(*   SelectSpec    the selection of perform_failover on two list orders    *)
(*   MonitorSpec   monitor_cluster, with auto_failover as configured       *)
(* A specification leaves the variables of the other controller idle.      *)
(*                                                                         *)
(* Numbers.  Percentages, rates and milliseconds are Python floats in the  *)
(* source; the model draws them from small sets of integers placed on and  *)
(* around the thresholds the code compares them with.  A confidence is a   *)
(* rational number: it is kept in units of 1/600, so that the mean of up   *)
(* to five weights given in tenths is an integer (0.5 is 300, 0.8 is 480). *)
(*                                                                         *)
(* Optional values (Python None) are sequences of length 0 or 1.           *)
(***************************************************************************)
EXTENDS Integers, Sequences, FiniteSets, TLC

VARIABLES
    pc,                \* position of the AutoScaleMonitor in its cycle
    metrics,           \* Optional ScalingMetrics of the cycle
    current_replicas,  \* run_monitoring_cycle's local current_replicas
    patterns,          \* Optional cpu_trend: the patterns dict handed to the decision
    decision,          \* Optional ScalingDecision of the cycle
    result,            \* Optional return value of execute_scaling_decision
    deployment,        \* deployment.spec.replicas held by the orchestration API
    now,               \* wall clock, seconds
    config,            \* self.config after load_configuration
    dry_run,           \* whether main was started with --dry-run
    queries,           \* Optional outcome of the cycle's Prometheus queries
    patches,           \* replica-count patch requests issued in the cycle
    stopped_at,        \* Optional position at which KeyboardInterrupt was raised
    failures,          \* "Failed to execute scaling decision" lines logged so far
    samples,           \* the metrics window handed to analyze_patterns
    summary,           \* Optional patterns dict returned by analyze_patterns
    recorded,          \* the scaling actions recorded by _record_scaling_action
    cycle,             \* number of monitoring cycles started
    cpc,               \* position of the RedisClusterManager
    redis_config,      \* the keys of RedisClusterManager.config a run may override
    iteration,         \* number of monitor_cluster iterations started
    k8s_ok,            \* whether the Kubernetes service and endpoint lookups succeed
    master_node,       \* the primary Redis endpoint as the network presents it
    replica_nodes,     \* the replica endpoints, in endpoint order
    status,            \* Optional ClusterStatus last returned by get_cluster_status
    check,             \* Optional result of a direct _check_failover_needed call
    failover,          \* Optional outcome of perform_failover
    selection          \* Optional pair of selections over two orders of one candidate set

vars == <<pc, metrics, current_replicas, patterns, decision, result, deployment, now,
          recorded, cycle, config, dry_run, queries, patches, stopped_at, failures,
          samples, summary, cpc, redis_config, iteration, k8s_ok, master_node, replica_nodes, status, check, failover,
          selection>>

scaleVars == <<pc, metrics, current_replicas, patterns, decision, result, deployment,
               now, recorded, cycle, config, dry_run, queries, patches, stopped_at,
               failures, samples, summary>>

clusterVars == <<cpc, redis_config, iteration, k8s_ok, master_node, replica_nodes,
                 status, check, failover, selection>>

\* what a single command of the RedisClusterManager never touches
managerFixed == <<redis_config, iteration>>

\* what no step of a monitoring cycle touches
loopFixed == <<config, dry_run, samples, summary, clusterVars>>

----------------------------------------------------------------------------
(* Helpers *)

None == <<>>

Some(x) == <<x>>

Max(a, b) == IF a >= b THEN a ELSE b

Min(a, b) == IF a <= b THEN a ELSE b

RECURSIVE Sum(_)
Sum(s) == IF s = <<>> THEN 0 ELSE Head(s) + Sum(Tail(s))

----------------------------------------------------------------------------
(* AutoScaleMonitor: configuration (load_configuration) *)

\* the defaults load_configuration starts from (the keys the monitor reads)
DefaultConfig ==
    [min_replicas |-> 3,
     max_replicas |-> 20,
     scale_up_threshold |-> 70,
     scale_down_threshold |-> 30,
     scale_up_cooldown |-> 300,
     scale_down_cooldown |-> 600,
     evaluation_interval |-> 60,
     response_time_threshold |-> 1000,
     error_rate_threshold |-> 5,
     request_rate_threshold |-> 100]

\* self.config.update(user_config): the keys of the file replace the defaults;
\* nothing is validated.  user_config is None when no --config is given.
load_configuration(user_config) ==
    IF user_config = None THEN DefaultConfig ELSE user_config[1] @@ DefaultConfig

min_replicas == config.min_replicas

max_replicas == config.max_replicas

scale_up_threshold == config.scale_up_threshold

scale_down_threshold == config.scale_down_threshold

scale_up_cooldown == config.scale_up_cooldown

scale_down_cooldown == config.scale_down_cooldown

evaluation_interval == config.evaluation_interval

response_time_threshold == config.response_time_threshold

error_rate_threshold == config.error_rate_threshold

request_rate_threshold == config.request_rate_threshold

----------------------------------------------------------------------------
(* Bounds of the model *)

\* the largest replica count handed to the decision or held by the deployment
MaxReplicaInput == 22

\* the number of monitoring cycles a run of the loop starts
MaxCycles == 3

\* the largest number of replica endpoints of the Redis cluster
MaxEndpoints == 2

\* the longest metrics window handed to analyze_patterns
MaxSamples == 3

\* the number of iterations a run of monitor_cluster starts
MaxIterations == 2

----------------------------------------------------------------------------
(* AutoScaleMonitor.make_scaling_decision                                  *)
(*                                                                         *)
(* A ScalingMetrics m is a record with the dataclass's fields.  The        *)
(* evaluation state d carries the ScalingDecision under construction and   *)
(* the three local lists reasons, metrics_used_l and confidence_factors    *)
(* (weights in tenths).  A reason is the list of the joined explanations.  *)

\* a weight or confidence given in tenths, in units of 1/600
Conf(tenths) == tenths * 60

\* mutant of Mean: the weight of the last signal instead of the mean
Mean_Last(factors) == factors[Len(factors)] * 60

\* sum(confidence_factors) / len(confidence_factors), in units of 1/600
Mean(factors) == (Sum(factors) * 60) \div Len(factors)

InitialDecision(c) ==
    [action |-> "no_action",
     reason |-> <<"All metrics within normal range">>,
     confidence |-> Conf(5),
     target_replicas |-> c,
     current_replicas |-> c,
     metrics_used |-> <<>>,
     reasons |-> <<>>,
     metrics_used_l |-> <<>>,
     confidence_factors |-> <<>>]

\* one signal that fired: its explanation, its name and its weight are appended
Fired(d, why, name, weight) ==
    [d EXCEPT !.reasons = Append(@, why),
              !.metrics_used_l = Append(@, name),
              !.confidence_factors = Append(@, weight)]

\* mutant of CpuHighTarget: max_replicas does not cap the proposal
CpuHighTarget_Uncapped(c) == c + 2

\* mutant of CpuHighTarget: one replica added instead of two
CpuHighTarget_OneStep(c) == Min(c + 1, max_replicas)

CpuHighTarget(c) == Min(c + 2, max_replicas)

\* mutant of CpuLowTarget: two replicas removed instead of one
CpuLowTarget_TwoSteps(c) == Max(c - 2, min_replicas)

CpuLowTarget(c) == Max(c - 1, min_replicas)

ResponseTimeTarget(c) == Min(c + 1, max_replicas)

\* mutant of ErrorRateTarget: one replica added instead of two
ErrorRateTarget_OneStep(c) == Min(c + 1, max_replicas)

ErrorRateTarget(c) == Min(c + 2, max_replicas)

RequestRateTarget(c) == Min(c + 2, max_replicas)

\* mutant of VoteUp: the proposals of the signals add up
VoteUp_Adds(d, target) ==
    IF target > d.current_replicas
    THEN [d EXCEPT !.action = "scale_up",
                   !.target_replicas = @ + (target - d.current_replicas)]
    ELSE d

\* mutant of VoteUp: the vote is taken although the proposal does not exceed
\* the current count
VoteUp_Unguarded(d, target) ==
    [d EXCEPT !.action = "scale_up",
              !.target_replicas = Max(d.target_replicas, target)]

\* the scale-up votes after the CPU check: the target only ever grows
VoteUp(d, target) ==
    IF target > d.current_replicas
    THEN [d EXCEPT !.action = "scale_up",
                   !.target_replicas = Max(d.target_replicas, target)]
    ELSE d

CpuCheck(d, m) ==
    LET c == d.current_replicas IN
    IF m.cpu_utilization > scale_up_threshold
    THEN LET f == Fired(d, "High CPU utilization", "cpu_utilization", 8)
             target == CpuHighTarget(c)
         IN  IF target > c
             THEN [f EXCEPT !.action = "scale_up", !.target_replicas = target]
             ELSE f
    ELSE IF m.cpu_utilization < scale_down_threshold
    THEN LET f == Fired(d, "Low CPU utilization", "cpu_utilization", 6)
             target == CpuLowTarget(c)
         IN  IF target < c
             THEN [f EXCEPT !.action = "scale_down", !.target_replicas = target]
             ELSE f
    ELSE d

ResponseTimeCheck(d, m) ==
    IF m.response_time_p95 > response_time_threshold
    THEN VoteUp(Fired(d, "High response time", "response_time_p95", 7),
                ResponseTimeTarget(d.current_replicas))
    ELSE d

ErrorRateCheck(d, m) ==
    IF m.error_rate > error_rate_threshold
    THEN VoteUp(Fired(d, "High error rate", "error_rate", 9),
                ErrorRateTarget(d.current_replicas))
    ELSE d

\* request_rate / max(current_replicas, 1) > request_rate_threshold, the
\* division cleared (the divisor is positive)
RequestsPerReplicaOver(m, c) ==
    m.request_rate > request_rate_threshold * Max(c, 1)

RequestRateCheck(d, m) ==
    IF RequestsPerReplicaOver(m, d.current_replicas)
    THEN VoteUp(Fired(d, "High request rate per replica", "request_rate", 6),
                RequestRateTarget(d.current_replicas))
    ELSE d

\* patterns.get("cpu_trend", 0): p is the Optional cpu_trend entry of the dict
CpuTrend(p) == IF p = None THEN 0 ELSE p[1]

\* mutant of TrendCheck: the amplifier does not look at the pending action
TrendCheck_AnyAction(d, p) ==
    IF CpuTrend(p) > 5
    THEN [Fired(d, "CPU utilization trending upward", "cpu_trend", 4)
            EXCEPT !.target_replicas = Min(d.target_replicas + 1, max_replicas)]
    ELSE d

TrendCheck(d, p) ==
    IF CpuTrend(p) > 5 /\ d.action = "scale_up"
    THEN [Fired(d, "CPU utilization trending upward", "cpu_trend", 4)
            EXCEPT !.target_replicas = Min(d.target_replicas + 1, max_replicas)]
    ELSE d

_is_in_cooldown(action) == FALSE

CooldownCheck(d) ==
    LET up == IF _is_in_cooldown("scale_up") /\ d.action = "scale_up"
              THEN [d EXCEPT !.action = "no_action",
                             !.reason = <<"Scale up action blocked by cooldown period">>,
                             !.confidence = Conf(9)]
              ELSE d
    IN  IF _is_in_cooldown("scale_down") /\ up.action = "scale_down"
        THEN [up EXCEPT !.action = "no_action",
                        !.reason = <<"Scale down action blocked by cooldown period">>,
                        !.confidence = Conf(9)]
        ELSE up

\* "Update decision properties", then the dataclass that is returned
UpdateProperties(d) ==
    LET u == IF d.reasons # <<>>
             THEN [d EXCEPT !.reason = d.reasons,
                            !.metrics_used = d.metrics_used_l,
                            !.confidence = Mean(d.confidence_factors)]
             ELSE d
    IN  [action |-> u.action,
         reason |-> u.reason,
         confidence |-> u.confidence,
         target_replicas |-> u.target_replicas,
         current_replicas |-> u.current_replicas,
         metrics_used |-> u.metrics_used]

\* the decision pending after the five signal checks, before the cooldown gate
PendingDecision(m, c, p) ==
    TrendCheck(
      RequestRateCheck(
        ErrorRateCheck(
          ResponseTimeCheck(
            CpuCheck(InitialDecision(c), m), m), m), m), p)

make_scaling_decision(m, c, p) ==
    UpdateProperties(CooldownCheck(PendingDecision(m, c, p)))

----------------------------------------------------------------------------
(* The idle values of the variables a specification does not use *)

\* AutoScaleMonitor(None), started without --dry-run
Constructed ==
    /\ config = load_configuration(None)
    /\ dry_run = FALSE

\* nothing of a cycle is in flight
NoCycle ==
    /\ queries = None
    /\ patches = 0
    /\ stopped_at = None
    /\ failures = 0

PatternIdle ==
    /\ samples = <<>>
    /\ summary = None

ScaleIdle ==
    /\ Constructed
    /\ NoCycle
    /\ PatternIdle
    /\ pc = "off"
    /\ metrics = None
    /\ current_replicas = 0
    /\ patterns = None
    /\ decision = None
    /\ result = None
    /\ deployment = 0
    /\ now = 0
    /\ recorded = <<>>
    /\ cycle = 0

\* the defaults of RedisClusterManager.load_configuration a run may override
DefaultRedisConfig == [auto_failover |-> TRUE]

\* RedisClusterManager(None), no monitoring iteration started
ManagerConstructed ==
    /\ redis_config = DefaultRedisConfig
    /\ iteration = 0

ClusterIdle ==
    /\ ManagerConstructed
    /\ cpc = "off"
    /\ k8s_ok = TRUE
    /\ master_node = None
    /\ replica_nodes = <<>>
    /\ status = None
    /\ check = None
    /\ failover = None
    /\ selection = None

----------------------------------------------------------------------------
(* DecisionSpec: make_scaling_decision applied to drawn arguments.         *)
(* The recorded actions and the clock are drawn too: the log is empty or   *)
(* holds one action executed at time 0, and the call is made 1 s after it, *)
(* or just after one of the two cooldown windows has elapsed.              *)

Sample(cpu, rt, er, rr) ==
    [cpu_utilization |-> cpu,
     memory_utilization |-> 50,
     request_rate |-> rr,
     response_time_p95 |-> rt,
     error_rate |-> er,
     queue_depth |-> 0,
     active_connections |-> 0]

CpuReadings == {10, scale_down_threshold, scale_up_threshold, 90}

ResponseTimeReadings == {response_time_threshold, 1500}

ErrorRateReadings == {error_rate_threshold, 10}

\* request rates at half the per-replica threshold, on it and just over it
RateReadings(c) ==
    {50 * Max(c, 1), request_rate_threshold * Max(c, 1),
     request_rate_threshold * Max(c, 1) + 1}

TrendReadings == {None, Some(5), Some(6)}

Action(t, a, from, to) ==
    [timestamp |-> t, action |-> a, from_replicas |-> from, to_replicas |-> to]

DecisionInit ==
    /\ ClusterIdle
    /\ Constructed
    /\ NoCycle
    /\ PatternIdle
    /\ pc = "call"
    /\ current_replicas \in 0..MaxReplicaInput
    /\ metrics \in {Some(Sample(cpu, rt, er, rr)) :
                      cpu \in CpuReadings, rt \in ResponseTimeReadings,
                      er \in ErrorRateReadings,
                      rr \in RateReadings(current_replicas)}
    /\ patterns \in TrendReadings
    /\ decision = None
    /\ result = None
    /\ deployment = current_replicas
    /\ recorded \in {<<>>, <<Action(0, "scale_up", 4, 6)>>,
                     <<Action(0, "scale_down", 4, 3)>>}
    /\ now \in {1, scale_up_cooldown + 1, scale_down_cooldown + 1}
    /\ cycle = 0

DecideCall ==
    /\ pc = "call"
    /\ decision' = Some(make_scaling_decision(metrics[1], current_replicas, patterns))
    /\ pc' = "returned"
    /\ UNCHANGED <<metrics, current_replicas, patterns, result, deployment, now,
                   recorded, cycle, queries, patches, stopped_at, failures,
                   loopFixed>>

DecisionNext == DecideCall

DecisionSpec == DecisionInit /\ [][DecisionNext]_vars

----------------------------------------------------------------------------
(* Properties of make_scaling_decision (DecisionSpec) *)

Returned == pc = "returned"

\* the signals other than CPU are at or below their thresholds
OthersNominal ==
    /\ metrics[1].response_time_p95 <= response_time_threshold
    /\ metrics[1].error_rate <= error_rate_threshold
    /\ ~RequestsPerReplicaOver(metrics[1], current_replicas)

\* C1: every returned decision has min_replicas <= target_replicas <= max_replicas,
\* whatever the metrics, the trend and the current replica count.
C1_TargetClamped ==
    Returned =>
        /\ min_replicas <= decision[1].target_replicas
        /\ decision[1].target_replicas <= max_replicas

\* the time of the last recorded action of a direction, if any
RECURSIVE LastRecorded(_, _)
LastRecorded(log, a) ==
    IF log = <<>> THEN None
    ELSE IF log[Len(log)].action = a THEN Some(log[Len(log)].timestamp)
    ELSE LastRecorded(SubSeq(log, 1, Len(log) - 1), a)

\* a scale-up was executed at t0 and the signals of this call vote to scale up
ScaleUpAfterScaleUp ==
    /\ Returned
    /\ LastRecorded(recorded, "scale_up") # None
    /\ PendingDecision(metrics[1], current_replicas, patterns).action = "scale_up"

\* C3: with a scale-up executed at t0, a decision computed inside the scale-up
\* cooldown window (t0+1s) that would scale up is returned as no_action with
\* confidence 0.9 and the blocked-by-cooldown reason; computed after the window
\* (t0+301s) it is returned as scale_up.
C3_CooldownVeto ==
    ScaleUpAfterScaleUp =>
        IF now - LastRecorded(recorded, "scale_up")[1] < scale_up_cooldown
        THEN /\ decision[1].action = "no_action"
             /\ decision[1].confidence = Conf(9)
             /\ decision[1].reason = <<"Scale up action blocked by cooldown period">>
        ELSE decision[1].action = "scale_up"

\* CPU over the scale-up threshold, the other signals nominal, no trend data
CpuHighOnly ==
    /\ Returned
    /\ metrics[1].cpu_utilization > scale_up_threshold
    /\ OthersNominal
    /\ patterns = None

\* C5 as stated: for every c, CPU high alone gives scale_up to min(c+2, max_replicas)
\* with confidence 0.8.
C5_CpuHighAlwaysScalesUp ==
    CpuHighOnly =>
        /\ decision[1].action = "scale_up"
        /\ decision[1].target_replicas = Min(current_replicas + 2, max_replicas)
        /\ decision[1].confidence = Conf(8)

\* C5 amended: CPU high alone gives confidence 0.8; below max_replicas the action is
\* scale_up to min(c+2, max_replicas); at or above max_replicas nothing can be added
\* and the decision is no_action with the target left at c.
C5_CpuHighScalesUpBelowMax ==
    CpuHighOnly =>
        /\ decision[1].confidence = Conf(8)
        /\ decision[1].metrics_used = <<"cpu_utilization">>
        /\ IF current_replicas < max_replicas
           THEN /\ decision[1].action = "scale_up"
                /\ decision[1].target_replicas = Min(current_replicas + 2, max_replicas)
           ELSE /\ decision[1].action = "no_action"
                /\ decision[1].target_replicas = current_replicas

C5_Witness ==
    /\ CpuHighOnly
    /\ metrics[1].cpu_utilization = 90
    /\ current_replicas = max_replicas - 1
    /\ decision[1].action = "scale_up"
    /\ decision[1].target_replicas = max_replicas

\* CPU under the scale-down threshold, the other signals nominal
CpuLowOnly ==
    /\ Returned
    /\ metrics[1].cpu_utilization < scale_down_threshold
    /\ OthersNominal

\* C6: CPU low alone with c > min_replicas gives scale_down to max(c-1, min_replicas)
\* with confidence 0.6 (c=5 gives 4).
C6_CpuLowScalesDown ==
    (CpuLowOnly /\ current_replicas > min_replicas) =>
        /\ decision[1].action = "scale_down"
        /\ decision[1].target_replicas = Max(current_replicas - 1, min_replicas)
        /\ decision[1].confidence = Conf(6)
        /\ (current_replicas = 5 => decision[1].target_replicas = 4)

C6_Witness ==
    /\ CpuLowOnly
    /\ metrics[1].cpu_utilization = 10
    /\ current_replicas = 5
    /\ decision[1].action = "scale_down"
    /\ decision[1].target_replicas = 4

\* the cooldown gate turned a pending scale action into no_action
Vetoed ==
    /\ PendingDecision(metrics[1], current_replicas, patterns).action # "no_action"
    /\ CooldownCheck(PendingDecision(metrics[1], current_replicas, patterns)).action
          = "no_action"

\* C19: a returned decision is no_action exactly when its target equals the
\* current replica count or the cooldown gate vetoed it; a scale_up that was
\* not vetoed has target > current, a scale_down has target < current.
C19_ActionMatchesTarget ==
    Returned =>
        /\ decision[1].action = "no_action" <=>
              (decision[1].target_replicas = decision[1].current_replicas \/ Vetoed)
        /\ decision[1].action = "scale_up" =>
              decision[1].target_replicas > decision[1].current_replicas
        /\ decision[1].action = "scale_down" =>
              decision[1].target_replicas < decision[1].current_replicas
        /\ decision[1].current_replicas = current_replicas

\* a scale-down vote of the CPU check overridden by a later scale-up vote: the
\* action and the target agree on the direction
C19_Witness ==
    /\ Returned
    /\ metrics[1].cpu_utilization < scale_down_threshold
    /\ metrics[1].response_time_p95 > response_time_threshold
    /\ current_replicas = 5
    /\ decision[1].action = "scale_up"
    /\ decision[1].target_replicas > 5

LatencyOver == metrics[1].response_time_p95 > response_time_threshold

ErrorsOver == metrics[1].error_rate > error_rate_threshold

RateOver == RequestsPerReplicaOver(metrics[1], current_replicas)

CpuOver == metrics[1].cpu_utilization > scale_up_threshold

CpuUnder == metrics[1].cpu_utilization < scale_down_threshold

TrendOver == CpuTrend(patterns) > 5

\* C21: for every current replica count, CPU under the scale-down threshold
\* together with latency, error rate or request rate per replica over its
\* threshold never returns scale_down.
C21_ScaleUpVoteOverridesScaleDown ==
    (Returned /\ CpuUnder /\ (LatencyOver \/ ErrorsOver \/ RateOver)) =>
        decision[1].action # "scale_down"

\* what does hold: below max_replicas the scale-up vote overrides
C21_OverridesBelowMax ==
    (Returned /\ CpuUnder /\ (LatencyOver \/ ErrorsOver \/ RateOver)
        /\ current_replicas < max_replicas) =>
        decision[1].action = "scale_up"

\* the targets proposed by the scale-up signals that fired
UpProposals ==
    (IF CpuOver THEN {Min(current_replicas + 2, max_replicas)} ELSE {}) \cup
    (IF LatencyOver THEN {Min(current_replicas + 1, max_replicas)} ELSE {}) \cup
    (IF ErrorsOver THEN {Min(current_replicas + 2, max_replicas)} ELSE {}) \cup
    (IF RateOver THEN {Min(current_replicas + 2, max_replicas)} ELSE {})

SetMax(S) == CHOOSE x \in S : \A y \in S : y <= x

\* C22: without the trend amplifier, the target of a returned scale_up is the
\* largest of the targets proposed by the signals that fired, not their sum, and
\* so at most min(current+2, max_replicas); also when the CPU check had voted
\* scale_down before.
C22_TargetIsMaxOfProposals ==
    (Returned /\ ~TrendOver /\ decision[1].action = "scale_up") =>
        /\ UpProposals # {}
        /\ decision[1].target_replicas = SetMax(UpProposals)
        /\ decision[1].target_replicas <= Min(current_replicas + 2, max_replicas)

\* CPU voted scale_down, then latency (c+1) and error rate (c+2) both fired
C22_Witness ==
    /\ Returned
    /\ ~TrendOver
    /\ CpuUnder
    /\ LatencyOver
    /\ ErrorsOver
    /\ ~RateOver
    /\ current_replicas = 5
    /\ decision[1].action = "scale_up"
    /\ decision[1].target_replicas = 7

\* C23: with cpu_trend > 5, a decision that would be scale_up without the
\* trend has its target raised by exactly 1 (capped at max_replicas), the weight
\* 0.4 added to the confidence average and cpu_trend added to the metrics used;
\* a decision that would be scale_down or no_action is returned as it would be
\* without the trend.
C23_TrendAmplifiesOnlyScaleUp ==
    (Returned /\ TrendOver) =>
        LET base == make_scaling_decision(metrics[1], current_replicas, None)
            pending == PendingDecision(metrics[1], current_replicas, None)
        IN  IF base.action = "scale_up"
            THEN /\ decision[1].action = "scale_up"
                 /\ decision[1].target_replicas =
                       Min(base.target_replicas + 1, max_replicas)
                 /\ decision[1].confidence =
                       ((Sum(pending.confidence_factors) + 4) * 60)
                          \div (Len(pending.confidence_factors) + 1)
                 /\ decision[1].metrics_used = Append(base.metrics_used, "cpu_trend")
            ELSE decision[1] = base

\* CPU high at 5 replicas with a rising trend: 5 -> 8, confidence (0.8+0.4)/2
C23_Witness ==
    /\ Returned
    /\ TrendOver
    /\ CpuOver
    /\ OthersNominal
    /\ current_replicas = 5
    /\ decision[1].action = "scale_up"
    /\ decision[1].target_replicas = 8
    /\ decision[1].confidence = Conf(6)

\* the weights of the signals that fired, in the order of the checks
FiredWeights ==
    (IF CpuOver THEN <<8>> ELSE IF CpuUnder THEN <<6>> ELSE <<>>) \o
    (IF LatencyOver THEN <<7>> ELSE <<>>) \o
    (IF ErrorsOver THEN <<9>> ELSE <<>>) \o
    (IF RateOver THEN <<6>> ELSE <<>>) \o
    (IF TrendOver /\ UpProposals # {} /\ current_replicas < max_replicas
     THEN <<4>> ELSE <<>>)

\* C25: the confidence returned is the arithmetic mean of the weights of
\* exactly the signals that fired, 0.5 when none fired, and lies in [0, 1].
C25_ConfidenceIsMeanOfFired ==
    Returned =>
        /\ decision[1].confidence =
              IF FiredWeights = <<>> THEN Conf(5)
              ELSE (Sum(FiredWeights) * 60) \div Len(FiredWeights)
        /\ decision[1].confidence >= 0
        /\ decision[1].confidence <= Conf(10)

\* CPU high, latency and error rate fired: (0.8 + 0.7 + 0.9) / 3 = 0.8
C25_Witness ==
    /\ Returned
    /\ FiredWeights = <<8, 7, 9>>
    /\ decision[1].confidence = Conf(8)

\* CPU between the thresholds, no rising trend
CpuMid == ~CpuOver /\ ~CpuUnder /\ ~TrendOver

\* the decision that a single signal proposing target with weight w gives
SingleSignal(target, w) ==
    /\ decision[1].action = "scale_up" <=> target > current_replicas
    /\ decision[1].action \in {"scale_up", "no_action"}
    /\ decision[1].target_replicas =
          IF target > current_replicas THEN target ELSE current_replicas
    /\ decision[1].confidence = Conf(w)

\* C26: with CPU between the thresholds and exactly one other signal over its
\* threshold, the proposal is min(c+1, max_replicas) with confidence 0.7 for
\* latency, min(c+2, max_replicas) with 0.9 for error rate and with 0.6 for
\* request rate per replica; the action is scale_up exactly when the proposal
\* exceeds c.
C26_SingleSignalProposal ==
    (Returned /\ CpuMid) =>
        /\ (LatencyOver /\ ~ErrorsOver /\ ~RateOver) =>
              SingleSignal(Min(current_replicas + 1, max_replicas), 7)
        /\ (~LatencyOver /\ ErrorsOver /\ ~RateOver) =>
              SingleSignal(Min(current_replicas + 2, max_replicas), 9)
        /\ (~LatencyOver /\ ~ErrorsOver /\ RateOver) =>
              SingleSignal(Min(current_replicas + 2, max_replicas), 6)

\* error rate alone at 5 replicas: scale_up to 7 with confidence 0.9
C26_Witness ==
    /\ Returned
    /\ CpuMid
    /\ ~LatencyOver
    /\ ErrorsOver
    /\ ~RateOver
    /\ current_replicas = 5
    /\ decision[1].action = "scale_up"
    /\ decision[1].target_replicas = 7
    /\ decision[1].confidence = Conf(9)

----------------------------------------------------------------------------
(* Spec: the monitoring loop of AutoScaleMonitor (run_continuous).         *)
(* A cycle is cut at its calls to the outside: the metric queries, the     *)
(* read of the deployment, the decision, the re-read of the deployment in  *)
(* execute_scaling_decision, and the patch.  Each call to the outside may  *)
(* fail.  The clock advances in time.sleep(evaluation_interval).           *)

\* a query result of collect_metrics: None when the query raised
\* PrometheusApiClientException or returned no series, which reads as 0.0
Reading(q) == IF q = None THEN 0 ELSE q[1]

CpuQueries == {None, Some(50), Some(90)}

ResponseTimeQueries == {None, Some(1500)}

ErrorRateQueries == {None, Some(10)}

RateQueries == {None, Some(5000)}

\* the four queries the decision reads, and the metric whose query raised
\* something other than PrometheusApiClientException, if any
Queries(cpu, rt, er, rr, raised) ==
    [cpu_utilization |-> cpu, response_time_p95 |-> rt, error_rate |-> er,
     request_rate |-> rr, raised |-> raised]

MetricNames == {"cpu_utilization", "response_time_p95", "error_rate", "request_rate"}

Init ==
    /\ ClusterIdle
    /\ PatternIdle
    /\ NoCycle
    /\ config = load_configuration(None)
    /\ dry_run \in BOOLEAN
    /\ pc = "cycle_start"
    /\ metrics = None
    /\ current_replicas = 0
    /\ patterns = None
    /\ decision = None
    /\ result = None
    /\ deployment \in 0..MaxReplicaInput
    /\ now = 0
    /\ recorded = <<>>
    /\ cycle = 1

\* collect_metrics returned a ScalingMetrics
CollectMetrics ==
    /\ pc = "cycle_start"
    /\ \E cpu \in CpuQueries, rt \in ResponseTimeQueries,
          er \in ErrorRateQueries, rr \in RateQueries :
          /\ queries' = Some(Queries(cpu, rt, er, rr, None))
          /\ metrics' = Some(Sample(Reading(cpu), Reading(rt), Reading(er), Reading(rr)))
    /\ pc' = "get_replicas"
    /\ UNCHANGED <<current_replicas, patterns, decision, result, deployment, now,
                   recorded, cycle, patches, stopped_at, failures,
                   loopFixed>>

\* a query raised an exception the inner handler does not name: the outer
\* handler of collect_metrics returns None and the cycle is skipped
CollectMetricsFailed ==
    /\ pc = "cycle_start"
    /\ \E name \in MetricNames :
          queries' = Some(Queries(None, None, None, None, Some(name)))
    /\ metrics' = None
    /\ pc' = "sleep"
    /\ UNCHANGED <<current_replicas, patterns, decision, result, deployment, now,
                   recorded, cycle, patches, stopped_at, failures,
                   loopFixed>>

\* mutant of GetCurrentReplicas: a count of 0 goes on to the decision
GetCurrentReplicas_NeverSkips ==
    /\ pc = "get_replicas"
    /\ \E read \in {deployment, 0} :
          /\ current_replicas' = read
          /\ pc' = "decide"
    /\ UNCHANGED <<metrics, patterns, decision, result, deployment, now, recorded,
                   cycle, queries, patches, stopped_at, failures,
                   loopFixed>>

\* get_current_replicas: the deployment's count, or 0 when the read raised;
\* a count of 0 skips the cycle
GetCurrentReplicas ==
    /\ pc = "get_replicas"
    /\ \E read \in {deployment, 0} :
          /\ current_replicas' = read
          /\ pc' = IF read = 0 THEN "sleep" ELSE "decide"
    /\ UNCHANGED <<metrics, patterns, decision, result, deployment, now, recorded,
                   cycle, queries, patches, stopped_at, failures,
                   loopFixed>>

\* mutant of Decide: computing the decision also actuates and records it
Decide_Actuates ==
    /\ pc = "decide"
    /\ patterns' = None
    /\ decision' = Some(make_scaling_decision(metrics[1], current_replicas, None))
    /\ deployment' = decision'[1].target_replicas
    /\ recorded' = IF decision'[1].action = "no_action" THEN recorded
                   ELSE Append(recorded, Action(now, decision'[1].action,
                                                current_replicas,
                                                decision'[1].target_replicas))
    /\ pc' = "execute"
    /\ UNCHANGED <<metrics, current_replicas, result, now, cycle, queries, patches,
                   stopped_at, failures, loopFixed>>

\* patterns = {} ; decision = make_scaling_decision(metrics, current_replicas, patterns)
Decide ==
    /\ pc = "decide"
    /\ patterns' = None
    /\ decision' = Some(make_scaling_decision(metrics[1], current_replicas, None))
    /\ pc' = "execute"
    /\ UNCHANGED <<metrics, current_replicas, result, deployment, now, recorded,
                   cycle, queries, patches, stopped_at, failures,
                   loopFixed>>

\* mutant of Overridden: --dry-run replaces nothing
Overridden_Never(dry) == FALSE

\* if args.dry_run: monitor.execute_scaling_decision = lambda decision: logger.info(..)
Overridden(dry) == dry

\* the dry-run lambda: the decision is logged, nothing else happens
ExecuteDryRun ==
    /\ pc = "execute"
    /\ Overridden(dry_run)
    /\ result' = None
    /\ pc' = "sleep"
    /\ UNCHANGED <<metrics, current_replicas, patterns, decision, deployment, now,
                   recorded, cycle, queries, patches, stopped_at, failures,
                   loopFixed>>

\* mutant of AfterExecute: the exception of a failed call is not caught
AfterExecute_Raises(ok) == IF ok THEN "sleep" ELSE "stopped"

\* mutant of AfterExecute: a failed call is issued again
AfterExecute_Retries(ok) == IF ok THEN "sleep" ELSE "patch"

\* where the cycle stands once execute_scaling_decision is over: it returns
\* True, or catches the exception and returns False; run_monitoring_cycle
\* ignores the value and returns to the loop, which sleeps
AfterExecute(ok) == "sleep"

\* mutant of ExecuteRead: the target is patched without being compared with the
\* count the re-read returned
ExecuteRead_AlwaysPatches ==
    /\ pc = "execute"
    /\ ~Overridden(dry_run)
    /\ IF decision[1].action = "no_action"
       THEN /\ result' = Some(TRUE)
            /\ pc' = AfterExecute(TRUE)
       ELSE /\ result' = result
            /\ pc' = "patch"
    /\ UNCHANGED <<metrics, current_replicas, patterns, decision, deployment, now,
                   recorded, cycle, queries, patches, stopped_at, failures,
                   loopFixed>>

\* execute_scaling_decision up to the patch: no_action returns True at once; the
\* re-read of the deployment returns True when the target is already in place
ExecuteRead ==
    /\ pc = "execute"
    /\ ~Overridden(dry_run)
    /\ IF decision[1].action = "no_action" \/ decision[1].target_replicas = deployment
       THEN /\ result' = Some(TRUE)
            /\ pc' = AfterExecute(TRUE)
       ELSE /\ result' = result
            /\ pc' = "patch"
    /\ UNCHANGED <<metrics, current_replicas, patterns, decision, deployment, now,
                   recorded, cycle, queries, patches, stopped_at, failures,
                   loopFixed>>

\* read_namespaced_deployment raised: caught, False is returned
ExecuteReadFailed ==
    /\ pc = "execute"
    /\ ~Overridden(dry_run)
    /\ decision[1].action # "no_action"
    /\ result' = Some(FALSE)
    /\ failures' = failures + 1
    /\ pc' = AfterExecute(FALSE)
    /\ UNCHANGED <<metrics, current_replicas, patterns, decision, deployment, now,
                   recorded, cycle, queries, patches, stopped_at, loopFixed>>

\* _record_scaling_action: the action is logged with its timestamp (a failure of
\* the CloudWatch call is caught and changes nothing)
_record_scaling_action(log, d, t) ==
    Append(log, Action(t, d.action, d.current_replicas, d.target_replicas))

\* the patch went through: the deployment has the target, the action is recorded
PatchSucceeded(dep, log, d, t) ==
    [deployment |-> d.target_replicas,
     recorded |-> _record_scaling_action(log, d, t),
     result |-> TRUE]

\* mutant of PatchFailed: the action is recorded although the patch raised
PatchFailed_Records(dep, log, d, t) ==
    [deployment |-> dep,
     recorded |-> _record_scaling_action(log, d, t),
     result |-> FALSE]

\* patch_namespaced_deployment raised: caught, False is returned
PatchFailed(dep, log, d, t) ==
    [deployment |-> dep, recorded |-> log, result |-> FALSE]

\* one patch_namespaced_deployment request
ExecutePatch ==
    /\ pc = "patch"
    /\ patches' = patches + 1
    /\ \E out \in {PatchSucceeded(deployment, recorded, decision[1], now),
                   PatchFailed(deployment, recorded, decision[1], now)} :
          /\ deployment' = out.deployment
          /\ recorded' = out.recorded
          /\ result' = Some(out.result)
          /\ failures' = IF out.result THEN failures ELSE failures + 1
          /\ pc' = AfterExecute(out.result)
    /\ UNCHANGED <<metrics, current_replicas, patterns, decision, now, cycle,
                   queries, stopped_at, loopFixed>>

\* time.sleep(evaluation_interval), then the next cycle: the locals of the
\* finished run_monitoring_cycle are gone
Sleep ==
    /\ pc = "sleep"
    /\ cycle < MaxCycles
    /\ now' = now + evaluation_interval
    /\ cycle' = cycle + 1
    /\ pc' = "cycle_start"
    /\ metrics' = None
    /\ decision' = None
    /\ result' = None
    /\ current_replicas' = 0
    /\ queries' = None
    /\ patches' = 0
    /\ UNCHANGED <<patterns, deployment, recorded, stopped_at, failures,
                   loopFixed>>

\* the positions of a running loop
LoopPositions == {"cycle_start", "get_replicas", "decide", "execute", "patch", "sleep"}

\* KeyboardInterrupt is raised wherever the loop stands: no handler inside the
\* cycle names it (it is not an Exception), so it unwinds to run_continuous,
\* which logs and returns.  Raised while the patch request is in flight, the
\* request has reached the API server or not; its outcome is never recorded.
Interrupt ==
    /\ pc \in LoopPositions
    /\ stopped_at' = Some(pc)
    /\ pc' = "stopped"
    /\ IF pc = "patch"
       THEN \E applied \in BOOLEAN :
               /\ deployment' = IF applied THEN decision[1].target_replicas
                                ELSE deployment
               /\ patches' = IF applied THEN patches + 1 ELSE patches
       ELSE UNCHANGED <<deployment, patches>>
    /\ UNCHANGED <<metrics, current_replicas, patterns, decision, result, now,
                   recorded, cycle, queries, failures, loopFixed>>

Next ==
    \/ CollectMetrics
    \/ CollectMetricsFailed
    \/ GetCurrentReplicas
    \/ Decide
    \/ ExecuteDryRun
    \/ ExecuteRead
    \/ ExecuteReadFailed
    \/ ExecutePatch
    \/ Sleep
    \/ Interrupt

Spec == Init /\ [][Next]_vars

----------------------------------------------------------------------------
(* ActorSpec: the loop, with another actor (an operator, an autoscaler)    *)
(* setting the deployment's replica count between the cycle's read in      *)
(* get_current_replicas and the re-read in execute_scaling_decision.       *)

\* the counts the other actor sets
ExternalCounts == {4, 15}

ActorInit ==
    /\ ClusterIdle
    /\ PatternIdle
    /\ NoCycle
    /\ config = load_configuration(None)
    /\ dry_run \in BOOLEAN
    /\ pc = "cycle_start"
    /\ metrics = None
    /\ current_replicas = 0
    /\ patterns = None
    /\ decision = None
    /\ result = None
    /\ deployment \in {5, 12}
    /\ now = 0
    /\ recorded = <<>>
    /\ cycle = 1

\* the other actor's write: the cycle has read the count and has not yet
\* re-read it
ExternalChange ==
    /\ pc \in {"decide", "execute"}
    /\ \E n \in ExternalCounts :
          /\ n # deployment
          /\ deployment' = n
    /\ UNCHANGED <<pc, metrics, current_replicas, patterns, decision, result, now,
                   recorded, cycle, queries, patches, stopped_at, failures,
                   loopFixed>>

ActorNext == Next \/ ExternalChange

ActorSpec == ActorInit /\ [][ActorNext]_vars

----------------------------------------------------------------------------
(* StartupSpec: the monitor is constructed from a configuration file, then *)
(* the loop runs with the configuration load_configuration produced.       *)

\* the contents of the --config file: absent, an override within the valid
\* range, and the two inconsistent overrides
UserConfigs ==
    {None,
     Some([max_replicas |-> 10]),
     Some([min_replicas |-> 25]),
     Some([scale_up_threshold |-> 20])}

StartupInit ==
    /\ ClusterIdle
    /\ PatternIdle
    /\ NoCycle
    /\ config = DefaultConfig
    /\ dry_run \in BOOLEAN
    /\ pc = "startup"
    /\ metrics = None
    /\ current_replicas = 0
    /\ patterns = None
    /\ decision = None
    /\ result = None
    /\ deployment \in {2, 12, MaxReplicaInput}
    /\ now = 0
    /\ recorded = <<>>
    /\ cycle = 1

\* AutoScaleMonitor(args.config): the file is read and merged, the clients are
\* set up, and main enters run_continuous
LoadConfiguration ==
    /\ pc = "startup"
    /\ \E user_config \in UserConfigs : config' = load_configuration(user_config)
    /\ pc' = "cycle_start"
    /\ UNCHANGED <<metrics, current_replicas, patterns, decision, result, deployment,
                   now, recorded, cycle, dry_run, queries, patches, stopped_at,
                   failures, samples, summary, clusterVars>>

\* the file cannot be opened or parsed, or a client cannot be set up: sys.exit(1)
StartupFailed ==
    /\ pc = "startup"
    /\ pc' = "exited"
    /\ UNCHANGED <<metrics, current_replicas, patterns, decision, result, deployment,
                   now, recorded, cycle, config, dry_run, queries, patches,
                   stopped_at, failures, samples, summary, clusterVars>>

StartupNext ==
    \/ LoadConfiguration
    \/ StartupFailed
    \/ Next

StartupSpec == StartupInit /\ [][StartupNext]_vars

----------------------------------------------------------------------------
(* Properties of the monitoring loop (Spec) *)

Cooldown(a) == IF a = "scale_up" THEN scale_up_cooldown ELSE scale_down_cooldown

\* C2: two executed actions of the same direction are separated by at least that
\* direction's cooldown (300 s for scale_up, 600 s for scale_down).
C2_CooldownSeparatesActions ==
    \A i \in 1..Len(recorded) : \A j \in 1..Len(recorded) :
        (i < j /\ recorded[i].action = recorded[j].action) =>
            recorded[j].timestamp - recorded[i].timestamp >= Cooldown(recorded[i].action)

\* C4: a step of execute_scaling_decision that ends in failure leaves the recorded
\* actions (and the deployment) as they were, and the record grows only in a step
\* in which the patch succeeded, by exactly the action that was executed.
C4_RecordOnlyAfterSuccess ==
    [][/\ result' = Some(FALSE) => (recorded' = recorded /\ deployment' = deployment)
       /\ recorded' # recorded =>
             /\ pc = "patch"
             /\ result' = Some(TRUE)
             /\ deployment' = decision[1].target_replicas
             /\ recorded' = Append(recorded,
                               Action(now, decision[1].action,
                                      decision[1].current_replicas,
                                      decision[1].target_replicas))]_vars

\* a cycle whose actuation failed, after a cycle whose action was recorded
C4_Witness ==
    /\ pc = "sleep"
    /\ result = Some(FALSE)
    /\ decision # None
    /\ decision[1].action = "scale_up"
    /\ deployment # decision[1].target_replicas
    /\ Len(recorded) = 1
    /\ recorded[1].timestamp < now

\* the query of a metric failed: it raised, or it returned no series
QueryFailed(name) ==
    queries[1][name] = None \/ queries[1].raised = Some(name)

\* C15: once the queries of a cycle are over, a metric whose query raised or
\* returned nothing reads 0 in the cycle's metrics, every other metric reads
\* what its query returned, and the cycle goes on with these metrics instead of
\* being skipped for want of them.
C15_FailedQueryReadsZero ==
    queries # None =>
        /\ metrics # None
        /\ \A name \in MetricNames :
              IF QueryFailed(name)
              THEN metrics[1][name] = 0
              ELSE metrics[1][name] = queries[1][name][1]

\* what does hold: the queries that return nothing or raise
\* PrometheusApiClientException read 0 and leave the other readings alone
C15_ApiErrorReadsZero ==
    (queries # None /\ queries[1].raised = None) =>
        /\ metrics # None
        /\ \A name \in MetricNames :
              IF queries[1][name] = None
              THEN metrics[1][name] = 0
              ELSE metrics[1][name] = queries[1][name][1]

\* a finished cycle whose CPU query failed, with no reading that votes for a
\* scale-up and more than min_replicas replicas at hand
CpuOutage ==
    /\ pc = "sleep"
    /\ queries # None
    /\ queries[1].response_time_p95 = None
    /\ queries[1].error_rate = None
    /\ queries[1].request_rate = None
    /\ IF metrics = None THEN deployment > min_replicas
       ELSE current_replicas > min_replicas

\* the cycle decided scale_down by one replica and, unless it runs dry or a call
\* to the orchestration API failed, patched the deployment to that count
ScaledDownByOne ==
    /\ decision # None
    /\ decision[1].action = "scale_down"
    /\ decision[1].target_replicas = current_replicas - 1
    /\ (~dry_run /\ failures = 0) =>
          /\ patches = 1
          /\ deployment = current_replicas - 1

\* C34: a cycle whose CPU query raised or returned nothing reads CPU as 0 and,
\* with more than min_replicas replicas and no scale-up signal, decides
\* scale_down to current - 1 and patches the deployment to it.
C34_CpuOutageScalesDown ==
    (CpuOutage /\ QueryFailed("cpu_utilization")) => ScaledDownByOne

\* what does hold: a CPU query that returns nothing or raises
\* PrometheusApiClientException scales down
C34_CpuApiErrorScalesDown ==
    (CpuOutage /\ queries[1].cpu_utilization = None /\ queries[1].raised = None) =>
        ScaledDownByOne

\* the cycle has collected no metrics, or has read a replica count of 0
NothingToDecideOn ==
    \/ queries # None /\ metrics = None
    \/ pc \notin {"cycle_start", "get_replicas"} /\ current_replicas = 0

\* C35: a cycle whose metric collection returned nothing or whose replica
\* count read returned 0 goes to the sleep with no decision computed and no
\* patch issued; a deployment at 0 replicas stays at 0 in every later cycle.
C35_SkippedCycleDoesNothing ==
    /\ [](NothingToDecideOn =>
            /\ pc \in {"sleep", "stopped"}
            /\ decision = None
            /\ patches = 0)
    /\ [](pc \in {"decide", "execute", "patch"} =>
            (metrics # None /\ current_replicas # 0))
    /\ [][deployment = 0 => deployment' = 0]_vars

\* a deployment at 0 replicas in its second cycle under high latency: the read
\* returned 0 and the cycle was skipped
C35_Witness ==
    /\ cycle = 2
    /\ pc = "sleep"
    /\ deployment = 0
    /\ metrics # None
    /\ metrics[1].response_time_p95 = 1500
    /\ current_replicas = 0
    /\ decision = None
    /\ patches = 0

\* the two inconsistencies of a configuration
InvalidConfig ==
    \/ config.scale_up_threshold < config.scale_down_threshold
    \/ config.min_replicas > config.max_replicas

\* C16: a configuration with scale_up_threshold < scale_down_threshold or with
\* min_replicas > max_replicas halts the process at startup: the monitor holding
\* it never stands anywhere but at its exit, and has computed no decision.
C16_InvalidConfigRejected ==
    InvalidConfig => (pc = "exited" /\ decision = None)

\* C27: the step that computes a decision changes neither the recorded
\* actions (the cooldown state), nor the configuration, nor the replica count
\* of the deployment, and issues no patch request; its inputs are left as they
\* were, so computing the decision again gives the same decision.
C27_DecisionHasNoSideEffects ==
    [][(decision' # decision /\ decision' # None) =>
          /\ UNCHANGED <<recorded, config, deployment, patches, failures, dry_run,
                         metrics, current_replicas, now, cycle>>
          /\ pc' # "patch"
          /\ decision'[1] =
                make_scaling_decision(metrics'[1], current_replicas', patterns')]_vars

\* a scale-up decided in the second cycle, after the action of the first cycle
\* was recorded: the record and the deployment are as the first cycle left them
C27_Witness ==
    /\ cycle = 2
    /\ pc = "execute"
    /\ decision # None
    /\ decision[1].action = "scale_up"
    /\ Len(recorded) = 1
    /\ deployment = recorded[1].to_replicas
    /\ patches = 0

\* the actuation call of the cycle has failed and the cycle is over
ActuationFailed == pc = "sleep" /\ result = Some(FALSE)

\* C13: in continuous mode a read or patch of the orchestration API that raises
\* ends execute_scaling_decision with False and the cycle goes on to the sleep
\* of the loop; from there the loop can only start cycle n+1, evaluation_interval
\* seconds later (or be interrupted by the operator), and that step is enabled.
C13_FailureDoesNotStopLoop ==
    /\ [][(result # Some(FALSE) /\ result' = Some(FALSE)) => pc' = "sleep"]_vars
    /\ [][ActuationFailed =>
             \/ /\ pc' = "cycle_start"
                /\ cycle' = cycle + 1
                /\ now' = now + evaluation_interval
             \/ pc' = "stopped"]_vars
    /\ []((ActuationFailed /\ cycle < MaxCycles) => ENABLED Sleep)

\* the patch of cycle 1 raised, and cycle 2 has been started one interval later
C13_Witness ==
    /\ cycle = 2
    /\ pc = "cycle_start"
    /\ now = evaluation_interval
    /\ failures = 1
    /\ recorded = <<>>

\* C14: a cycle issues at most one replica-count patch request, whether it
\* succeeds or fails; after a failure nothing more is issued in the cycle; and
\* a decision is computed from the metrics and the replica count read in the
\* same cycle, all of which are dropped when the cycle ends.
C14_AtMostOnePatchPerCycle ==
    /\ [](patches <= 1)
    /\ [](ActuationFailed => ~ENABLED ExecutePatch)
    /\ [][decision' # decision /\ decision' # None =>
             /\ queries # None
             /\ metrics = Some(Sample(Reading(queries[1].cpu_utilization),
                                      Reading(queries[1].response_time_p95),
                                      Reading(queries[1].error_rate),
                                      Reading(queries[1].request_rate)))
             /\ current_replicas # 0
             /\ decision'[1] = make_scaling_decision(metrics[1], current_replicas, None)]_vars
    /\ [][cycle' # cycle =>
             /\ queries' = None
             /\ metrics' = None
             /\ current_replicas' = 0
             /\ decision' = None
             /\ patches' = 0]_vars

\* a cycle whose one patch request failed, after a cycle whose patch succeeded
C14_Witness ==
    /\ cycle = 2
    /\ ActuationFailed
    /\ patches = 1
    /\ Len(recorded) = 1
    /\ deployment # decision[1].target_replicas

\* C20: started with --dry-run the monitor never issues a patch request, in
\* any cycle and whatever the decision: the deployment's replica count and the
\* recorded actions are left as they were by every step.
C20_DryRunNeverMutates ==
    /\ [](dry_run => (patches = 0 /\ pc # "patch" /\ recorded = <<>>))
    /\ [][dry_run => deployment' = deployment]_vars

\* C32: a deployment whose replica count is within [min_replicas,
\* max_replicas] is within these bounds after every step of the loop, whatever
\* the readings and whether the calls to the orchestration API succeed or fail.
C32_ReplicasStayInRange ==
    [][(min_replicas <= max_replicas /\ deployment \in min_replicas..max_replicas) =>
          deployment' \in min_replicas..max_replicas]_vars

\* two executed scale-ups from within the bounds, the second stopped by
\* max_replicas
C32_Witness ==
    /\ cycle = 2
    /\ pc = "sleep"
    /\ Len(recorded) = 2
    /\ recorded[1].from_replicas \in min_replicas..max_replicas
    /\ recorded[2].to_replicas < recorded[1].to_replicas + 2
    /\ recorded[2].to_replicas = max_replicas
    /\ deployment = max_replicas

\* C33: the patch of an executed scale_up does not lower the replica count the
\* re-read found, and the patch of an executed scale_down does not raise it,
\* another actor having changed the count since the cycle read it or not.
C33_WriteFollowsDirection ==
    [][(pc = "patch" /\ deployment' # deployment) =>
          /\ decision[1].action = "scale_up" => deployment' > deployment
          /\ decision[1].action = "scale_down" => deployment' < deployment]_vars

\* execute_scaling_decision is entered with a decision it has nothing to do for
NothingToExecute ==
    /\ pc = "execute"
    /\ ~dry_run
    /\ \/ decision[1].action = "no_action"
       \/ decision[1].target_replicas = deployment

\* C38: execute_scaling_decision, given a no_action decision, does not call the
\* orchestration API and returns True; given a target equal to the replica
\* count its re-read returns, it returns True without a patch.  Either way the
\* deployment and the recorded actions are as they were.
C38_NothingToExecuteChangesNothing ==
    /\ [][(NothingToExecute /\ pc' \notin {"execute", "stopped"}
              /\ failures' = failures) =>
             /\ result' = Some(TRUE)
             /\ pc' = "sleep"
             /\ UNCHANGED <<deployment, recorded, patches>>]_vars
    /\ []((NothingToExecute /\ decision[1].action = "no_action") =>
             (ENABLED ExecuteRead /\ ~ENABLED ExecuteReadFailed))

\* a scale_down from 5 to 4 decided, the deployment set to 4 by another actor
\* before the re-read: success, no patch, nothing recorded
C38_Witness ==
    /\ pc = "sleep"
    /\ ~dry_run
    /\ decision # None
    /\ decision[1].action = "scale_down"
    /\ current_replicas = 5
    /\ decision[1].target_replicas = deployment
    /\ result = Some(TRUE)
    /\ recorded = <<>>
    /\ patches = 0

\* a dry run in its second cycle that decided to scale up and only logged it
C20_Witness ==
    /\ dry_run
    /\ cycle = 2
    /\ pc = "sleep"
    /\ decision # None
    /\ decision[1].action = "scale_up"
    /\ decision[1].target_replicas # deployment
    /\ result = None

\* C17: a KeyboardInterrupt that arrives while a cycle is in flight lets the
\* actuation call finish: the loop never stops between the read of the
\* deployment and the patch, or with the patch request in flight; and once
\* stopped, no cycle is started.
C17_InterruptWaitsForActuation ==
    pc = "stopped" => stopped_at # Some("patch")

\* C17, second half: after the interrupt nothing runs any more
C17_NoCycleAfterInterrupt ==
    [][pc = "stopped" => UNCHANGED vars]_vars

----------------------------------------------------------------------------
(* analyze_patterns and PatternSpec: analyze_patterns applied to a drawn   *)
(* window of samples.  A Python float that is the quotient of two integers *)
(* is kept as that quotient; the volatility, a square root, is kept as the *)
(* quotient it is the root of.  A dict is a function on its keys.          *)

Quotient(a, b) == [num |-> a, den |-> b]

\* mutant of Trend: the difference is divided by the number of intervals
Trend_PerInterval(first, last, n) == Quotient(last - first, n - 1)

\* (metrics[-1].x - metrics[0].x) / len(metrics)
Trend(first, last, n) == Quotient(last - first, n)

RECURSIVE SumSquares(_)
SumSquares(values) ==
    IF values = <<>> THEN 0
    ELSE Head(values) * Head(values) + SumSquares(Tail(values))

\* _calculate_volatility: the root of sum((x - mean)^2) / n, which is
\* (n * sum(x^2) - sum(x)^2) / n^2; 0.0 for fewer than two values
_calculate_volatility(values) ==
    LET n == Len(values) IN
    IF n < 2 THEN [root_of |-> Quotient(0, 1)]
    ELSE [root_of |-> Quotient(n * SumSquares(values) - Sum(values) * Sum(values), n * n)]

\* the dict returned: empty for fewer than two samples
analyze_patterns(window) ==
    LET n == Len(window) IN
    IF n < 2 THEN <<>>
    ELSE [cpu_trend |->
              Trend(window[1].cpu_utilization, window[n].cpu_utilization, n),
          request_trend |->
              Trend(window[1].request_rate, window[n].request_rate, n),
          response_time_trend |->
              Trend(window[1].response_time_p95, window[n].response_time_p95, n),
          volatility |->
              _calculate_volatility([i \in 1..n |-> window[i].cpu_utilization])]

\* patterns.get(key, default)
PatternGet(p, key, default) == IF key \in DOMAIN p THEN p[key] ELSE default

SeqsOfLen(S, n) == [1..n -> S]

WindowSamples ==
    {Sample(cpu, 200, 1, rr) : cpu \in {40, 60}, rr \in {100, 300}}

PatternInit ==
    /\ ClusterIdle
    /\ Constructed
    /\ NoCycle
    /\ pc = "analyze"
    /\ metrics = None
    /\ current_replicas = 0
    /\ patterns = None
    /\ decision = None
    /\ result = None
    /\ deployment = 0
    /\ now = 0
    /\ recorded = <<>>
    /\ cycle = 0
    /\ samples \in UNION {SeqsOfLen(WindowSamples, n) : n \in 0..MaxSamples}
    /\ summary = None

AnalyzeCall ==
    /\ pc = "analyze"
    /\ summary' = Some(analyze_patterns(samples))
    /\ pc' = "analyzed"
    /\ UNCHANGED <<metrics, current_replicas, patterns, decision, result, deployment,
                   now, recorded, cycle, config, dry_run, queries, patches,
                   stopped_at, failures, samples, clusterVars>>

PatternNext == AnalyzeCall

PatternSpec == PatternInit /\ [][PatternNext]_vars

----------------------------------------------------------------------------
(* TrendSpec: the loop of a monitor that has been running, with the        *)
(* samples of its recent cycles at hand (the window an analyzer would be   *)
(* given).  The steps are those of Spec.                                   *)

\* recent samples that differ in CPU only
RecentSamples == {Sample(cpu, 200, 1, 100) : cpu \in {40, 60}}

TrendInit ==
    /\ ClusterIdle
    /\ NoCycle
    /\ config = load_configuration(None)
    /\ dry_run \in BOOLEAN
    /\ pc = "cycle_start"
    /\ metrics = None
    /\ current_replicas = 0
    /\ patterns = None
    /\ decision = None
    /\ result = None
    /\ deployment \in {5, max_replicas - 1}
    /\ now = 0
    /\ recorded = <<>>
    /\ cycle = 1
    /\ samples \in UNION {SeqsOfLen(RecentSamples, n) : n \in 0..MaxSamples}
    /\ summary = None

TrendSpec == TrendInit /\ [][Next]_vars

----------------------------------------------------------------------------
(* Properties of analyze_patterns (PatternSpec) *)

Analyzed == pc = "analyzed"

TrendFields == {"cpu_trend", "request_trend", "response_time_trend"}

\* the rational t is the difference last - first divided by n
IsRate(t, first, last, n) == t.den # 0 /\ t.num * n = (last - first) * t.den

\* every trend of the summary is (last - first) / n over the window
TrendsAreRates ==
    LET n == Len(samples) IN
    /\ DOMAIN summary[1] = TrendFields \cup {"volatility"}
    /\ IsRate(summary[1].cpu_trend,
              samples[1].cpu_utilization, samples[n].cpu_utilization, n)
    /\ IsRate(summary[1].request_trend,
              samples[1].request_rate, samples[n].request_rate, n)
    /\ IsRate(summary[1].response_time_trend,
              samples[1].response_time_p95, samples[n].response_time_p95, n)

\* C18: analyze_patterns returns a summary whose three trends and whose
\* volatility are 0 for fewer than 2 samples, and for n >= 2 samples returns
\* each trend as (last - first) / n.
C18_ZeroSummaryBelowTwoSamples ==
    Analyzed =>
        IF Len(samples) < 2
        THEN /\ DOMAIN summary[1] = TrendFields \cup {"volatility"}
             /\ \A f \in TrendFields : summary[1][f].num = 0
             /\ summary[1].volatility.root_of.num = 0
        ELSE TrendsAreRates

\* C18 as the code has it: for fewer than 2 samples the dict returned is empty
\* (it has no trend field and no volatility), and each key read from it with
\* patterns.get(key, 0) reads 0; for n >= 2 samples each trend is
\* (last - first) / n.
C18_EmptySummaryBelowTwoSamples ==
    Analyzed =>
        IF Len(samples) < 2
        THEN /\ DOMAIN summary[1] = {}
             /\ \A f \in TrendFields \cup {"volatility"} :
                   PatternGet(summary[1], f, 0) = 0
        ELSE TrendsAreRates

\* the window [cpu=40, cpu=60]: the cpu trend is 10
C18_Witness ==
    /\ Analyzed
    /\ Len(samples) = 2
    /\ samples[1].cpu_utilization = 40
    /\ samples[2].cpu_utilization = 60
    /\ summary[1].cpu_trend.num = 10 * summary[1].cpu_trend.den

----------------------------------------------------------------------------
(* Properties of the loop with recent samples at hand (TrendSpec) *)

\* the recent CPU samples rise by more than 5 points per sample
RisingTrend ==
    /\ Len(samples) >= 2
    /\ analyze_patterns(samples).cpu_trend.num > 5 * analyze_patterns(samples).cpu_trend.den

\* C24: the trend handed to the decision of a cycle is the one analyze_patterns
\* computes from the recent samples: with a rising trend (more than 5 points
\* per sample) it reads over 5, and a decision that is scale_up without the
\* trend is made with a target one replica higher, capped at max_replicas.
C24_TrendOfRecentSamplesIsUsed ==
    (pc = "execute" /\ RisingTrend) =>
        LET base == make_scaling_decision(metrics[1], current_replicas, None)
        IN  /\ CpuTrend(patterns) > 5
            /\ base.action = "scale_up" =>
                  decision[1].target_replicas =
                     Min(base.target_replicas + 1, max_replicas)

----------------------------------------------------------------------------
(* RedisClusterManager: configuration defaults (load_configuration) *)

master_port == 6379

replication_lag_threshold == 30

memory_threshold == 80

connection_threshold == 1000

auto_failover == redis_config.auto_failover

----------------------------------------------------------------------------
(* RedisClusterManager.get_node_info                                       *)
(*                                                                         *)
(* An endpoint, as the network presents it, is a record                    *)
(*   [reach, role, memory, clients, link_down]                             *)
(* reach is "ok", "no_connection" (get_redis_connection returned None) or  *)
(* "info_error" (r.info() raised); the other fields are what INFO reports: *)
(* role, used_memory / maxmemory * 100 (0 when maxmemory is 0),            *)
(* connected_clients and master_link_down_since_seconds.                   *)

NodeInfo(host, role, connected, memory_usage, connections, lag) ==
    [host |-> host,
     port |-> master_port,
     role |-> role,
     connected |-> connected,
     memory_usage |-> memory_usage,
     cpu_usage |-> 0,
     connections |-> connections,
     lag |-> lag]

get_node_info(host, n) ==
    IF n.reach = "no_connection"
    THEN NodeInfo(host, "unknown", FALSE, 0, 0, 0)
    ELSE IF n.reach = "info_error"
    THEN NodeInfo(host, "error", FALSE, 0, 0, 0)
    ELSE NodeInfo(host, n.role, TRUE, n.memory, n.clients,
                  IF n.role = "slave" THEN n.link_down ELSE 0)

----------------------------------------------------------------------------
(* RedisClusterManager._check_failover_needed *)

\* mutant of AnyLagging: the lag of a replica that is not connected counts too
RECURSIVE AnyLagging_Unconnected(_)
AnyLagging_Unconnected(replicas) ==
    IF replicas = <<>> THEN FALSE
    ELSE IF Head(replicas).lag > replication_lag_threshold
    THEN TRUE
    ELSE AnyLagging_Unconnected(Tail(replicas))

\* for replica in replicas: if replica.connected and replica.lag > threshold
RECURSIVE AnyLagging(_)
AnyLagging(replicas) ==
    IF replicas = <<>> THEN FALSE
    ELSE IF Head(replicas).connected /\ Head(replicas).lag > replication_lag_threshold
    THEN TRUE
    ELSE AnyLagging(Tail(replicas))

\* mutant of healthy_replicas: every polled replica is a candidate
healthy_replicas_All(replicas) == replicas

\* healthy_replicas = [r for r in replicas if r.connected]
healthy_replicas(replicas) == SelectSeq(replicas, LAMBDA r : r.connected)

\* mutant of total_replica_capacity: the connected filter is left out
RECURSIVE total_replica_capacity_All(_)
total_replica_capacity_All(replicas) ==
    IF replicas = <<>> THEN 0
    ELSE Head(replicas).connections + total_replica_capacity_All(Tail(replicas))

\* sum(r.connections for r in replicas if r.connected)
RECURSIVE total_replica_capacity(_)
total_replica_capacity(replicas) ==
    IF replicas = <<>> THEN 0
    ELSE (IF Head(replicas).connected THEN Head(replicas).connections ELSE 0)
         + total_replica_capacity(Tail(replicas))

_check_failover_needed(master, replicas) ==
    IF ~master.connected THEN TRUE
    ELSE IF AnyLagging(replicas) THEN TRUE
    ELSE IF /\ master.memory_usage > memory_threshold
            /\ Len(healthy_replicas(replicas)) > 0
    THEN TRUE
    ELSE IF /\ master.connections > connection_threshold
            /\ total_replica_capacity(replicas) > 0
    THEN TRUE
    ELSE FALSE

----------------------------------------------------------------------------
(* RedisClusterManager.get_cluster_status *)

MasterIp == "10.0.0.1"

ReplicaIps == <<"10.0.1.1", "10.0.1.2", "10.0.1.3", "10.0.1.4">>

ClusterStatus(host, port, replicas, memory, connections, healthy, needed) ==
    [master_host |-> host,
     master_port |-> port,
     replicas |-> replicas,
     total_memory |-> memory,
     total_connections |-> connections,
     is_healthy |-> healthy,
     failover_needed |-> needed]

\* mutant of EmptyStatus: the early returns do not ask for a failover
EmptyStatus_NotFlagged == ClusterStatus("", 0, <<>>, 0, 0, FALSE, FALSE)

\* the status of both early returns: master unreachable, or an exception caught
EmptyStatus == ClusterStatus("", 0, <<>>, 0, 0, FALSE, TRUE)

\* mutant of PollReplicas: a replica that does not answer is left out
PollReplicas_SkipsDown(nodes) ==
    SelectSeq([i \in 1..Len(nodes) |-> get_node_info(ReplicaIps[i], nodes[i])],
              LAMBDA r : r.connected)

\* one get_node_info per endpoint address, in endpoint order
PollReplicas(nodes) == [i \in 1..Len(nodes) |-> get_node_info(ReplicaIps[i], nodes[i])]

RECURSIVE SumField(_, _)
SumField(replicas, f) ==
    IF replicas = <<>> THEN 0 ELSE Head(replicas)[f] + SumField(Tail(replicas), f)

\* mutant of IsHealthy: the failover verdict is left out
IsHealthy_ConnectedOnly(master_info, failover_needed) == master_info.connected

\* is_healthy=master_info.connected and not failover_needed
IsHealthy(master_info, failover_needed) == master_info.connected /\ ~failover_needed

\* mutant of get_cluster_status: a lookup that raised reads as no replicas
get_cluster_status_LookupsSkipped(lookups_ok, master, nodes) ==
    LET master_info == get_node_info(MasterIp, master) IN
    IF ~master_info.connected THEN EmptyStatus
    ELSE LET replicas == IF lookups_ok THEN PollReplicas(nodes) ELSE <<>>
             failover_needed == _check_failover_needed(master_info, replicas)
         IN  ClusterStatus(MasterIp, master_port, replicas,
                 master_info.memory_usage + SumField(replicas, "memory_usage"),
                 master_info.connections + SumField(replicas, "connections"),
                 IsHealthy(master_info, failover_needed),
                 failover_needed)

get_cluster_status(lookups_ok, master, nodes) ==
    IF ~lookups_ok THEN EmptyStatus
    ELSE LET master_info == get_node_info(MasterIp, master) IN
         IF ~master_info.connected THEN EmptyStatus
         ELSE LET replicas == PollReplicas(nodes)
                  failover_needed == _check_failover_needed(master_info, replicas)
              IN  ClusterStatus(MasterIp, master_port, replicas,
                      master_info.memory_usage + SumField(replicas, "memory_usage"),
                      master_info.connections + SumField(replicas, "connections"),
                      IsHealthy(master_info, failover_needed),
                      failover_needed)

----------------------------------------------------------------------------
(* RedisClusterManager.perform_failover *)

\* mutant of KeyLess: the key is the lag alone
KeyLess_LagOnly(a, b) == a.lag < b.lag

\* the key of min(): (r.lag, r.memory_usage), compared as Python compares tuples
KeyLess(a, b) ==
    \/ a.lag < b.lag
    \/ a.lag = b.lag /\ a.memory_usage < b.memory_usage

\* min(healthy_replicas, key=...): the first element no later element is below
RECURSIVE MinByKey(_, _)
MinByKey(best, rest) ==
    IF rest = <<>> THEN best
    ELSE MinByKey(IF KeyLess(Head(rest), best) THEN Head(rest) ELSE best, Tail(rest))

\* best_replica = min(healthy_replicas, key=lambda r: (r.lag, r.memory_usage)),
\* for a non-empty list
best_replica(healthy) == MinByKey(Head(healthy), Tail(healthy))

\* the outcome: the status polled, the replica selected and the value returned
perform_failover(lookups_ok, master, nodes) ==
    IF ~auto_failover
    THEN [status |-> None, best_replica |-> None, ok |-> FALSE]
    ELSE LET st == get_cluster_status(lookups_ok, master, nodes)
             healthy == healthy_replicas(st.replicas)
         IN  IF healthy = <<>>
             THEN [status |-> Some(st), best_replica |-> None, ok |-> FALSE]
             ELSE [status |-> Some(st),
                   best_replica |-> Some(best_replica(healthy)),
                   ok |-> TRUE]

----------------------------------------------------------------------------
(* ClusterSpec: the cluster as the network presents it is drawn, then one  *)
(* command of the tool runs against it: --status (get_cluster_status) or   *)
(* --failover (perform_failover).                                          *)

Endpoint(reach, role, memory, clients, link_down) ==
    [reach |-> reach, role |-> role, memory |-> memory, clients |-> clients,
     link_down |-> link_down]

Unreachable == {Endpoint(r, "", 0, 0, 0) : r \in {"no_connection", "info_error"}}

MasterEndpoints ==
    Unreachable \cup
    {Endpoint("ok", "master", m, c, 0) :
        m \in {memory_threshold, 90}, c \in {connection_threshold, 1001}}

\* replicas on and around the lag threshold, and one endpoint of the replica
\* service that reports role master (its link-down time is not read)
ReplicaEndpoints ==
    Unreachable \cup
    {Endpoint("ok", "slave", m, c, l) :
        m \in {30, 50}, c \in {0, 10}, l \in {5, replication_lag_threshold, 31}} \cup
    {Endpoint("ok", "master", 30, 10, 31)}

SeqsUpTo(S, n) == UNION {[1..k -> S] : k \in 0..n}

ClusterInit ==
    /\ ScaleIdle
    /\ ManagerConstructed
    /\ selection = None
    /\ cpc = "ready"
    /\ k8s_ok \in BOOLEAN
    /\ master_node \in {Some(m) : m \in MasterEndpoints}
    /\ replica_nodes \in SeqsUpTo(ReplicaEndpoints, MaxEndpoints)
    /\ status = None
    /\ check = None
    /\ failover = None

StatusCommand ==
    /\ cpc = "ready"
    /\ status' = Some(get_cluster_status(k8s_ok, master_node[1], replica_nodes))
    /\ cpc' = "polled"
    /\ UNCHANGED <<k8s_ok, master_node, replica_nodes, check, failover, selection,
                   managerFixed, scaleVars>>

FailoverCommand ==
    /\ cpc = "ready"
    /\ failover' = Some(perform_failover(k8s_ok, master_node[1], replica_nodes))
    /\ cpc' = "failed_over"
    /\ UNCHANGED <<k8s_ok, master_node, replica_nodes, status, check, selection,
                   managerFixed, scaleVars>>

ClusterNext == StatusCommand \/ FailoverCommand

ClusterSpec == ClusterInit /\ [][ClusterNext]_vars

----------------------------------------------------------------------------
(* CheckSpec: _check_failover_needed applied to drawn NodeInfo arguments   *)

MasterInfos ==
    {NodeInfo(MasterIp, IF c THEN "master" ELSE "unknown", c, m, n, 0) :
        c \in BOOLEAN, m \in {memory_threshold, 90}, n \in {connection_threshold, 1001}}

ReplicaInfos(host) ==
    {NodeInfo(host, IF c THEN "slave" ELSE "unknown", c, 50, n, l) :
        c \in BOOLEAN, n \in {0, 10}, l \in {5, replication_lag_threshold, 31}}

ReplicaInfoLists ==
    UNION {{s \in [1..k -> UNION {ReplicaInfos(ReplicaIps[i]) : i \in 1..k}] :
              \A i \in 1..k : s[i].host = ReplicaIps[i]} : k \in 0..MaxEndpoints}

CheckInit ==
    /\ ScaleIdle
    /\ ManagerConstructed
    /\ selection = None
    /\ cpc = "check_call"
    /\ k8s_ok = TRUE
    /\ master_node = None
    /\ replica_nodes = <<>>
    /\ status = None
    /\ check \in {Some([master |-> m, replicas |-> rs, result |-> None]) :
                    m \in MasterInfos, rs \in ReplicaInfoLists}
    /\ failover = None

CheckCall ==
    /\ cpc = "check_call"
    /\ check' = Some([check[1] EXCEPT !.result =
                        Some(_check_failover_needed(check[1].master, check[1].replicas))])
    /\ cpc' = "checked"
    /\ UNCHANGED <<k8s_ok, master_node, replica_nodes, status, failover, selection,
                   managerFixed, scaleVars>>

CheckNext == CheckCall

CheckSpec == CheckInit /\ [][CheckNext]_vars

----------------------------------------------------------------------------
(* SelectSpec: the selection of perform_failover applied to one set of     *)
(* connected replicas listed in two orders (the order of the list is the   *)
(* order in which the Kubernetes endpoints were returned).                 *)

\* connected replicas at distinct addresses, with telemetry that can tie
CandidateInfos(host) ==
    {NodeInfo(host, "slave", TRUE, m, 10, l) : l \in {0, 5, 10}, m \in {30, 50}}

CandidateLists ==
    UNION {{list \in SeqsOfLen(UNION {CandidateInfos(ReplicaIps[i]) : i \in 1..n}, n) :
               \A i \in 1..n : list[i].host = ReplicaIps[i]} : n \in 1..MaxEndpoints}

\* the same replicas in every order
Reorderings(list) ==
    {[i \in 1..Len(list) |-> list[p[i]]] : p \in Permutations(1..Len(list))}

SelectInit ==
    /\ ScaleIdle
    /\ ManagerConstructed
    /\ cpc = "select_call"
    /\ k8s_ok = TRUE
    /\ master_node = None
    /\ replica_nodes = <<>>
    /\ status = None
    /\ check = None
    /\ failover = None
    /\ \E list \in CandidateLists :
          selection \in {Some([listed |-> list, relisted |-> other,
                               first |-> None, second |-> None]) :
                            other \in Reorderings(list)}

SelectCall ==
    /\ cpc = "select_call"
    /\ selection' =
          Some([selection[1] EXCEPT
                  !.first = Some(best_replica(healthy_replicas(selection[1].listed))),
                  !.second = Some(best_replica(healthy_replicas(selection[1].relisted)))])
    /\ cpc' = "selected"
    /\ UNCHANGED <<k8s_ok, master_node, replica_nodes, status, check, failover,
                   managerFixed, scaleVars>>

SelectNext == SelectCall

SelectSpec == SelectInit /\ [][SelectNext]_vars

----------------------------------------------------------------------------
(* MonitorSpec: main dispatches to monitor_cluster (continuous) or to      *)
(* --failover, with auto_failover as the configuration file has it.  An    *)
(* iteration of monitor_cluster polls the cluster, calls perform_failover  *)
(* when the status warrants it, and sleeps.  perform_failover polls the    *)
(* cluster again: the primary may have come back or gone in between, and   *)
(* is found as it then is by the next iteration.                           *)

MonitorMasters ==
    {Endpoint("no_connection", "", 0, 0, 0),
     Endpoint("ok", "master", memory_threshold, connection_threshold, 0),
     Endpoint("ok", "master", 90, connection_threshold, 0)}

MonitorReplicas ==
    {Endpoint("no_connection", "", 0, 0, 0),
     Endpoint("ok", "slave", 30, 10, 5),
     Endpoint("ok", "slave", 50, 10, 31)}

MonitorInit ==
    /\ ScaleIdle
    /\ selection = None
    /\ cpc \in {"monitor", "ready"}
    /\ redis_config \in {[auto_failover |-> b] : b \in BOOLEAN}
    /\ iteration = IF cpc = "monitor" THEN 1 ELSE 0
    /\ k8s_ok \in BOOLEAN
    /\ master_node \in {Some(m) : m \in MonitorMasters}
    /\ replica_nodes \in SeqsUpTo(MonitorReplicas, MaxEndpoints)
    /\ status = None
    /\ check = None
    /\ failover = None

\* mutant of FailoverWarranted: only an unreachable primary warrants the call
FailoverWarranted_PrimaryDownOnly(st) ==
    ~st.is_healthy /\ st.master_host = "" /\ auto_failover

\* if not status.is_healthy: if status.failover_needed: if self.config["auto_failover"]
FailoverWarranted(st) ==
    ~st.is_healthy /\ st.failover_needed /\ auto_failover

\* status = self.get_cluster_status() and the checks on it
MonitorPoll ==
    /\ cpc = "monitor"
    /\ status' = Some(get_cluster_status(k8s_ok, master_node[1], replica_nodes))
    /\ cpc' = IF FailoverWarranted(status'[1]) THEN "monitor_failover"
              ELSE "monitor_sleep"
    /\ UNCHANGED <<k8s_ok, master_node, replica_nodes, check, failover, selection,
                   managerFixed, scaleVars>>

\* the primary comes back or goes while the monitor is between its poll and
\* the poll of perform_failover
PrimaryChanges ==
    /\ cpc = "monitor_failover"
    /\ \E m \in MonitorMasters :
          /\ Some(m) # master_node
          /\ master_node' = Some(m)
    /\ UNCHANGED <<cpc, k8s_ok, replica_nodes, status, check, failover, selection,
                   managerFixed, scaleVars>>

\* self.perform_failover(), its return value dropped
MonitorFailover ==
    /\ cpc = "monitor_failover"
    /\ failover' = Some(perform_failover(k8s_ok, master_node[1], replica_nodes))
    /\ cpc' = "monitor_sleep"
    /\ UNCHANGED <<k8s_ok, master_node, replica_nodes, status, check, selection,
                   managerFixed, scaleVars>>

\* time.sleep(health_check_interval), then the next iteration
MonitorSleep ==
    /\ cpc = "monitor_sleep"
    /\ iteration < MaxIterations
    /\ iteration' = iteration + 1
    /\ \E m \in MonitorMasters : master_node' = Some(m)
    /\ status' = None
    /\ failover' = None
    /\ cpc' = "monitor"
    /\ UNCHANGED <<redis_config, k8s_ok, replica_nodes, check, selection, scaleVars>>

MonitorNext ==
    \/ MonitorPoll
    \/ PrimaryChanges
    \/ MonitorFailover
    \/ MonitorSleep
    \/ FailoverCommand

MonitorSpec == MonitorInit /\ [][MonitorNext]_vars

----------------------------------------------------------------------------
(* Properties of get_cluster_status and perform_failover (ClusterSpec) *)

Polled == cpc = "polled"

PrimaryReachable == master_node[1].reach = "ok"

\* the lookups succeed, the primary does not answer, two replicas answer
PrimaryDownTwoReplicasUp ==
    /\ Polled
    /\ k8s_ok
    /\ ~PrimaryReachable
    /\ Len(replica_nodes) = 2
    /\ \A i \in 1..2 : replica_nodes[i].reach = "ok"

\* C7: with the primary unreachable and two replicas reachable, the returned status
\* has is_healthy=false, failover_needed=true and a replicas list of length 2 with
\* the replicas' polled telemetry.
C7_ReplicasKeptWhenPrimaryDown ==
    PrimaryDownTwoReplicasUp =>
        /\ ~status[1].is_healthy
        /\ status[1].failover_needed
        /\ Len(status[1].replicas) = 2
        /\ \A i \in 1..2 :
              /\ status[1].replicas[i].connected
              /\ status[1].replicas[i].memory_usage = replica_nodes[i].memory
              /\ status[1].replicas[i].connections = replica_nodes[i].clients
              /\ replica_nodes[i].role = "slave" =>
                    status[1].replicas[i].lag = replica_nodes[i].link_down

\* C9: every returned status has is_healthy = (primary connected and not
\* failover_needed), on the normal path and on both early returns.
C9_HealthyIffConnectedAndNoFailover ==
    Polled =>
        (status[1].is_healthy <=> (PrimaryReachable /\ ~status[1].failover_needed))

\* the normal path with a replica lagging: primary connected, yet not healthy
C9_Witness ==
    /\ Polled
    /\ k8s_ok
    /\ PrimaryReachable
    /\ Len(status[1].replicas) = 2
    /\ status[1].failover_needed
    /\ ~status[1].is_healthy

FailedOver == cpc = "failed_over"

\* the connected replicas of the status perform_failover polled
Candidates ==
    {i \in 1..Len(failover[1].status[1].replicas) :
        failover[1].status[1].replicas[i].connected}

\* C10: with at least one connected replica in the polled status, the replica
\* selected is a connected replica of that status whose (lag, memory_usage) is
\* lexicographically minimal among the connected ones: A(lag=5,mem=50) against
\* B(lag=5,mem=30) selects B.
C10_SelectsLexicographicMinimum ==
    (FailedOver /\ Candidates # {}) =>
        LET reps == failover[1].status[1].replicas
            best == failover[1].best_replica
        IN  /\ failover[1].ok
            /\ best # None
            /\ best[1].connected
            /\ \E i \in Candidates : reps[i] = best[1]
            /\ \A i \in Candidates :
                  \/ best[1].lag < reps[i].lag
                  \/ /\ best[1].lag = reps[i].lag
                     /\ best[1].memory_usage <= reps[i].memory_usage

\* A(lag=5, mem=50) polled before B(lag=5, mem=30): B is selected
C10_Witness ==
    /\ FailedOver
    /\ Len(replica_nodes) = 2
    /\ Candidates = {1, 2}
    /\ failover[1].status[1].replicas[1].lag = 5
    /\ failover[1].status[1].replicas[1].memory_usage = 50
    /\ failover[1].status[1].replicas[2].lag = 5
    /\ failover[1].status[1].replicas[2].memory_usage = 30
    /\ failover[1].best_replica = Some(failover[1].status[1].replicas[2])

\* C11: when no replica of the polled status is connected, perform_failover
\* returns False and names no node to promote: nothing is selected from the
\* disconnected replicas and no fallback node is made up.
C11_NoCandidateNoPromotion ==
    (FailedOver /\ failover[1].status # None /\ Candidates = {}) =>
        /\ ~failover[1].ok
        /\ failover[1].best_replica = None

\* the primary answers, two replicas were polled and neither is connected
C11_Witness ==
    /\ FailedOver
    /\ failover[1].status # None
    /\ failover[1].status[1].master_host = MasterIp
    /\ Len(failover[1].status[1].replicas) = 2
    /\ Candidates = {}
    /\ ~failover[1].ok
    /\ failover[1].best_replica = None

\* C30: with the lookups answered and the primary reachable, the replicas of
\* the returned status are one NodeInfo per endpoint address, in endpoint
\* order; an endpoint that does not answer is there with connected = FALSE,
\* role "unknown" or "error", and zero memory_usage, connections and lag.
C30_EveryEndpointReported ==
    (Polled /\ k8s_ok /\ PrimaryReachable) =>
        /\ Len(status[1].replicas) = Len(replica_nodes)
        /\ \A i \in 1..Len(replica_nodes) :
              LET r == status[1].replicas[i] IN
              /\ r.host = ReplicaIps[i]
              /\ r.connected <=> replica_nodes[i].reach = "ok"
              /\ replica_nodes[i].reach # "ok" =>
                    /\ r.role \in {"unknown", "error"}
                    /\ r.memory_usage = 0
                    /\ r.connections = 0
                    /\ r.lag = 0

\* the first endpoint does not answer, the second does: both are reported
C30_Witness ==
    /\ Polled
    /\ k8s_ok
    /\ PrimaryReachable
    /\ Len(replica_nodes) = 2
    /\ replica_nodes[1].reach # "ok"
    /\ replica_nodes[2].reach = "ok"
    /\ Len(status[1].replicas) = 2
    /\ ~status[1].replicas[1].connected
    /\ status[1].replicas[2].connected

\* C36: when a lookup of the poll raises, get_cluster_status returns (the
\* command goes on to print the status) a status with empty master_host, no
\* replicas, zero totals, is_healthy = FALSE and failover_needed = TRUE,
\* whatever the Redis nodes would have answered.
C36_LookupFailureGivesEmptyStatus ==
    (Polled /\ ~k8s_ok) =>
        /\ status # None
        /\ status[1].master_host = ""
        /\ status[1].master_port = 0
        /\ status[1].replicas = <<>>
        /\ status[1].total_memory = 0
        /\ status[1].total_connections = 0
        /\ ~status[1].is_healthy
        /\ status[1].failover_needed

\* the lookups raise while the primary and two replicas would answer
C36_Witness ==
    /\ Polled
    /\ ~k8s_ok
    /\ PrimaryReachable
    /\ Len(replica_nodes) = 2
    /\ \A i \in 1..2 : replica_nodes[i].reach = "ok"
    /\ status[1].master_host = ""
    /\ status[1].replicas = <<>>
    /\ status[1].failover_needed

\* C37: a returned status is healthy exactly when it does not ask for a
\* failover.
C37_HealthyIsNotFlagged ==
    Polled => (status[1].is_healthy <=> ~status[1].failover_needed)

\* a primary over its memory threshold with no replica answering: not flagged,
\* hence healthy
C37_Witness ==
    /\ Polled
    /\ k8s_ok
    /\ PrimaryReachable
    /\ master_node[1].memory > memory_threshold
    /\ Len(replica_nodes) = 2
    /\ \A i \in 1..2 : replica_nodes[i].reach # "ok"
    /\ ~status[1].failover_needed
    /\ status[1].is_healthy

----------------------------------------------------------------------------
(* Properties of the selection (SelectSpec) *)

Selected == cpc = "selected"

\* C12: two selections over the same connected replicas, listed in any two
\* orders, return the same node, also when candidates tie on lag and
\* memory_usage.
C12_SelectionIgnoresOrder ==
    Selected => selection[1].first = selection[1].second

\* what the code does guarantee: both selections have the same minimal key
C12_SameKeyInAnyOrder ==
    Selected =>
        /\ selection[1].first[1].lag = selection[1].second[1].lag
        /\ selection[1].first[1].memory_usage = selection[1].second[1].memory_usage

----------------------------------------------------------------------------
(* Properties of monitor_cluster (MonitorSpec) *)

\* the iteration is past its checks
IterationDone == cpc = "monitor_sleep" /\ status # None

\* C28: an iteration of monitor_cluster whose polled status has
\* failover_needed, with auto_failover enabled, goes on to call
\* perform_failover and has called it before it sleeps; with auto_failover
\* disabled a perform_failover call returns False without polling and without
\* selecting a replica.
C28_FailoverInvokedWhenNeeded ==
    /\ [][(cpc = "monitor" /\ cpc' # "monitor" /\ status'[1].failover_needed
              /\ auto_failover) => cpc' = "monitor_failover"]_vars
    /\ [](cpc = "monitor_failover" => ENABLED MonitorFailover)
    /\ []((IterationDone /\ status[1].failover_needed /\ auto_failover) =>
             failover # None)
    /\ []((failover # None /\ ~auto_failover) =>
             /\ failover[1].status = None
             /\ failover[1].best_replica = None
             /\ ~failover[1].ok)

\* the primary is up with a replica lagging over the threshold: the status asks
\* for a failover, and the iteration has called perform_failover
C28_Witness ==
    /\ IterationDone
    /\ auto_failover
    /\ status[1].master_host = MasterIp
    /\ status[1].failover_needed
    /\ failover # None
    /\ failover[1].ok

\* C29: with the primary unreachable and a replica reachable, the
\* perform_failover called by the monitor selects a reachable replica and
\* returns True.
C29_FailoverPromotesReachableReplica ==
    (IterationDone /\ failover # None /\ k8s_ok /\ ~PrimaryReachable
        /\ \E i \in 1..Len(replica_nodes) : replica_nodes[i].reach = "ok") =>
        /\ failover[1].ok
        /\ failover[1].best_replica # None
        /\ \E i \in 1..Len(replica_nodes) :
              /\ replica_nodes[i].reach = "ok"
              /\ failover[1].best_replica[1].host = ReplicaIps[i]

----------------------------------------------------------------------------
(* Properties of _check_failover_needed (CheckSpec) *)

Checked == cpc = "checked"

ConnectedReplicas ==
    {i \in 1..Len(check[1].replicas) : check[1].replicas[i].connected}

\* the sum of the connection counts of the replicas indexed by S
RECURSIVE ConnectionsOf(_)
ConnectionsOf(S) ==
    IF S = {} THEN 0
    ELSE LET i == CHOOSE x \in S : TRUE
         IN  check[1].replicas[i].connections + ConnectionsOf(S \ {i})

\* C8: _check_failover_needed returns true exactly when (a) the primary is not
\* connected, or (b) a connected replica has lag > replication_lag_threshold, or
\* (c) primary memory_usage > memory_threshold with a replica connected, or
\* (d) primary connections > connection_threshold with the connected replicas'
\* connection counts summing to more than 0.
C8_FailoverNeededExactly ==
    Checked =>
        (check[1].result[1] <=>
            \/ ~check[1].master.connected
            \/ \E i \in ConnectedReplicas :
                  check[1].replicas[i].lag > replication_lag_threshold
            \/ /\ check[1].master.memory_usage > memory_threshold
               /\ ConnectedReplicas # {}
            \/ /\ check[1].master.connections > connection_threshold
               /\ ConnectionsOf(ConnectedReplicas) > 0)

\* rule (d) alone decides: memory on its threshold, no replica lagging
C8_Witness ==
    /\ Checked
    /\ check[1].master.connected
    /\ check[1].master.memory_usage = memory_threshold
    /\ check[1].master.connections > connection_threshold
    /\ ConnectedReplicas # {}
    /\ \A i \in ConnectedReplicas : check[1].replicas[i].lag <= replication_lag_threshold
    /\ check[1].result = Some(TRUE)

\* C31: _check_failover_needed returns True for a connected primary only when
\* a replica of the list is connected; with no replica connected it returns
\* False, however high the primary's memory usage or connection count.
C31_NoFailoverIntoVoid ==
    (Checked /\ check[1].master.connected) =>
        /\ check[1].result = Some(TRUE) => ConnectedReplicas # {}
        /\ ConnectedReplicas = {} => check[1].result = Some(FALSE)

\* primary over both thresholds, replicas listed, one of them with a lag over
\* the threshold, none connected: no failover
C31_Witness ==
    /\ Checked
    /\ check[1].master.connected
    /\ check[1].master.memory_usage > memory_threshold
    /\ check[1].master.connections > connection_threshold
    /\ Len(check[1].replicas) = 2
    /\ check[1].replicas[1].lag > replication_lag_threshold
    /\ ConnectedReplicas = {}
    /\ check[1].result = Some(FALSE)

====
